---- MODULE Spec2Model ----
(***************************************************************************)
(* match-sorter (src/src/index.js): ranks the items of a collection        *)
(* against a query string and returns the matching ones, best first.       *)
(*                                                                         *)
(* Strings are sequences of one-character strings.  A JS value is a record *)
(* [type, str, props]: the program only ever observes a value through its  *)
(* template-string coercion `${v}` and through property reads v[key].      *)
(* Array positions (index, keyIndex) are 0-based as in the source.         *)
(***************************************************************************)
EXTENDS Integers, Sequences, FiniteSets

VARIABLES
  items,        \* matchSorter argument: the array of items
  value,        \* matchSorter argument: the query string
  options,      \* matchSorter argument: [hasKeys, keys]; hasKeys = FALSE is keys === undefined
  matchedItems, \* the array of ranked records of the last call, after .sort()
  result,       \* the array returned by matchSorter(items, value, options)
  result2,      \* the array returned by matchSorter(result, value, options)
  testString,   \* argument of the string-level functions
  stringToRank, \* argument of the string-level functions
  ranking,      \* the number returned by the string-level function
  pc

vars == <<items, value, options, matchedItems, result, result2,
          testString, stringToRank, ranking, pc>>

(***************************************************************************)
(* Bounds                                                                  *)
(***************************************************************************)
MaxItems == 3
MaxLen == 3

(***************************************************************************)
(* matchRankMap                                                            *)
(***************************************************************************)
matchRankMap ==
  [equals |-> 5, startsWith |-> 4, wordStartsWith |-> 3, contains |-> 2,
   acronym |-> 1, matches |-> 0, noMatch |-> -1]

(***************************************************************************)
(* JS values and string primitives                                         *)
(***************************************************************************)
KeyNames == {"first", "second"}

Undefined == [type |-> "undefined", str |-> <<>>]
Str(s) == [type |-> "string", str |-> s]

NoProps == [k \in KeyNames |-> Undefined]
StringItem(s) == [type |-> "string", str |-> s, props |-> NoProps]
ObjectItem(p) == [type |-> "object", str |-> <<>>, props |-> p]

UndefinedText == <<"u","n","d","e","f","i","n","e","d">>
ObjectText == <<"[","o","b","j","e","c","t"," ","O","b","j","e","c","t","]">>

\* `${v}`
TemplateString(v) ==
  CASE v.type = "undefined" -> UndefinedText
    [] v.type = "string" -> v.str
    [] v.type = "object" -> ObjectText

UpperChars == <<"A","B","C","D","E","F","G","H","I","J","K","L","M",
                "N","O","P","Q","R","S","T","U","V","W","X","Y","Z">>
LowerChars == <<"a","b","c","d","e","f","g","h","i","j","k","l","m",
                "n","o","p","q","r","s","t","u","v","w","x","y","z">>

ToLowerChar(c) ==
  IF \E i \in 1..Len(UpperChars) : UpperChars[i] = c
    THEN LowerChars[CHOOSE i \in 1..Len(UpperChars) : UpperChars[i] = c]
    ELSE c

\* String.prototype.toLowerCase
toLowerCase(s) == [i \in 1..Len(s) |-> ToLowerChar(s[i])]

\* sub occurs in s at 0-based position p
OccursAt(s, sub, p) ==
  /\ p + Len(sub) <= Len(s)
  /\ \A k \in 1..Len(sub) : s[p + k] = sub[k]

\* String.prototype.indexOf: first 0-based position of sub in s, or -1
indexOf(s, sub) ==
  IF \E p \in 0..Len(s) : OccursAt(s, sub, p)
    THEN CHOOSE p \in 0..Len(s) :
           /\ OccursAt(s, sub, p)
           /\ \A r \in 0..(p - 1) : ~OccursAt(s, sub, r)
    ELSE -1

\* String.prototype.split with a one-character separator
RECURSIVE split(_, _)
split(s, sep) ==
  IF \E i \in 1..Len(s) : s[i] = sep
    THEN LET i == CHOOSE j \in 1..Len(s) :
                    s[j] = sep /\ \A r \in 1..(j - 1) : s[r] # sep
         IN  <<SubSeq(s, 1, i - 1)>> \o split(SubSeq(s, i + 1, Len(s)), sep)
    ELSE <<s>>

\* String.prototype.substr(0, 1)
substr01(s) == IF s = <<>> THEN <<>> ELSE <<s[1]>>

(***************************************************************************)
(* getAcronym                                                              *)
(***************************************************************************)
RECURSIVE AcronymOfHyphenWords(_)
AcronymOfHyphenWords(ws) ==
  IF ws = <<>> THEN <<>>
  ELSE substr01(Head(ws)) \o AcronymOfHyphenWords(Tail(ws))

RECURSIVE AcronymOfWords(_)
AcronymOfWords(ws) ==
  IF ws = <<>> THEN <<>>
  ELSE AcronymOfHyphenWords(split(Head(ws), "-")) \o AcronymOfWords(Tail(ws))

getAcronym(string) == AcronymOfWords(split(string, " "))

(***************************************************************************)
(* stringsByCharOrder                                                      *)
(***************************************************************************)
\* findMatchingCharacter: the 0-based position j >= charNumber of the first
\* occurrence of matchChar in string, or -1 when there is none (found = false)
findMatchingCharacter(matchChar, string, charNumber) ==
  IF \E j \in charNumber..(Len(string) - 1) : string[j + 1] = matchChar
    THEN CHOOSE j \in charNumber..(Len(string) - 1) :
           /\ string[j + 1] = matchChar
           /\ \A r \in charNumber..(j - 1) : string[r + 1] # matchChar
    ELSE -1

\* variant: the cursor stays on the matched character (charNumber = j)
RECURSIVE CharOrderLoop_CursorOnMatch(_, _, _, _)
CharOrderLoop_CursorOnMatch(ts, str, i, charNumber) ==
  IF i >= Len(str) THEN matchRankMap.matches
  ELSE LET j == findMatchingCharacter(str[i + 1], ts, charNumber)
       IN  IF j = -1 THEN matchRankMap.noMatch
           ELSE CharOrderLoop_CursorOnMatch(ts, str, i + 1, j)

\* the loop over stringToRank from position i (0-based) with cursor charNumber
RECURSIVE CharOrderLoop(_, _, _, _)
CharOrderLoop(ts, str, i, charNumber) ==
  IF i >= Len(str) THEN matchRankMap.matches
  ELSE LET j == findMatchingCharacter(str[i + 1], ts, charNumber)
       IN  IF j = -1 THEN matchRankMap.noMatch
           ELSE CharOrderLoop(ts, str, i + 1, j + 1)

stringsByCharOrder(ts, str) == CharOrderLoop(ts, str, 0, 0)

(***************************************************************************)
(* getMatchRanking: ts is a JS value, str a string                         *)
(***************************************************************************)
\* variant: an empty query matches nothing
getMatchRanking_EmptyQueryNoMatch(ts, str) ==
  LET t == toLowerCase(TemplateString(ts))
      s == toLowerCase(str)
  IN  IF Len(s) > Len(t) \/ Len(s) = 0 THEN matchRankMap.noMatch
      ELSE IF t = s THEN matchRankMap.equals
      ELSE IF indexOf(t, s) = 0 THEN matchRankMap.startsWith
      ELSE IF indexOf(t, <<" ">> \o s) # -1 THEN matchRankMap.wordStartsWith
      ELSE IF indexOf(t, s) # -1 THEN matchRankMap.contains
      ELSE IF Len(s) = 1 THEN matchRankMap.noMatch
      ELSE IF indexOf(getAcronym(t), s) # -1 THEN matchRankMap.acronym
      ELSE stringsByCharOrder(t, s)

getMatchRanking(ts, str) ==
  LET t == toLowerCase(TemplateString(ts))
      s == toLowerCase(str)
  IN  IF Len(s) > Len(t) THEN matchRankMap.noMatch
      ELSE IF t = s THEN matchRankMap.equals
      ELSE IF indexOf(t, s) = 0 THEN matchRankMap.startsWith
      ELSE IF indexOf(t, <<" ">> \o s) # -1 THEN matchRankMap.wordStartsWith
      ELSE IF indexOf(t, s) # -1 THEN matchRankMap.contains
      ELSE IF Len(s) = 1 THEN matchRankMap.noMatch
      ELSE IF indexOf(getAcronym(t), s) # -1 THEN matchRankMap.acronym
      ELSE stringsByCharOrder(t, s)

(***************************************************************************)
(* getHighestRanking                                                       *)
(***************************************************************************)
\* the reduce callback of getHighestRanking; i is the 0-based key position
HighestRankingStep(acc, item, key, i, val) ==
  LET newRank == getMatchRanking(item.props[key], val)
  IN  IF newRank > acc.rank THEN [rank |-> newRank, keyIndex |-> i] ELSE acc

\* keys.reduce(callback, initial) over the first n keys
RECURSIVE HighestRankingReduce(_, _, _, _)
HighestRankingReduce(item, keys, val, n) ==
  IF n = 0 THEN [rank |-> matchRankMap.noMatch, keyIndex |-> -1]
  ELSE HighestRankingStep(HighestRankingReduce(item, keys, val, n - 1),
                          item, keys[n], n - 1, val)

getHighestRanking(item, opts, val) ==
  IF ~opts.hasKeys
    THEN [rank |-> getMatchRanking(item, val), keyIndex |-> -1]
    ELSE HighestRankingReduce(item, opts.keys, val, Len(opts.keys))

(***************************************************************************)
(* sortRankedItems                                                         *)
(***************************************************************************)
\* variant: the lower rank first
sortRankedItems_RankAscending(a, b) ==
  IF a.rank = b.rank
    THEN IF a.keyIndex = b.keyIndex
           THEN (IF a.index < b.index THEN -1 ELSE 1)
           ELSE (IF a.keyIndex < b.keyIndex THEN -1 ELSE 1)
    ELSE (IF a.rank < b.rank THEN -1 ELSE 1)

\* variant: the larger index first
sortRankedItems_IndexDescending(a, b) ==
  IF a.rank = b.rank
    THEN IF a.keyIndex = b.keyIndex
           THEN (IF a.index > b.index THEN -1 ELSE 1)
           ELSE (IF a.keyIndex < b.keyIndex THEN -1 ELSE 1)
    ELSE (IF a.rank > b.rank THEN -1 ELSE 1)

\* variant: no keyIndex comparison
sortRankedItems_NoKeyIndex(a, b) ==
  IF a.rank = b.rank
    THEN (IF a.index < b.index THEN -1 ELSE 1)
    ELSE (IF a.rank > b.rank THEN -1 ELSE 1)

\* variant: aFirst and bFirst exchanged where the ranks are the same
sortRankedItems_TiesReversed(a, b) ==
  IF a.rank = b.rank
    THEN IF a.keyIndex = b.keyIndex
           THEN (IF a.index < b.index THEN 1 ELSE -1)
           ELSE (IF a.keyIndex < b.keyIndex THEN 1 ELSE -1)
    ELSE (IF a.rank > b.rank THEN -1 ELSE 1)

\* variant: no index comparison, the same rank and keyIndex compare equal
sortRankedItems_TiesEqual(a, b) ==
  IF a.rank = b.rank
    THEN IF a.keyIndex = b.keyIndex
           THEN 0
           ELSE (IF a.keyIndex < b.keyIndex THEN -1 ELSE 1)
    ELSE (IF a.rank > b.rank THEN -1 ELSE 1)

sortRankedItems(a, b) ==
  LET aFirst == -1
      bFirst == 1
  IN  IF a.rank = b.rank
        THEN IF a.keyIndex = b.keyIndex
               THEN (IF a.index < b.index THEN aFirst ELSE bFirst)
               ELSE (IF a.keyIndex < b.keyIndex THEN aFirst ELSE bFirst)
        ELSE (IF a.rank > b.rank THEN aFirst ELSE bFirst)

(***************************************************************************)
(* matchSorter                                                             *)
(***************************************************************************)
\* variant: rank >= noMatch
reduceItemsToRanked_KeepsNoMatch(matches, item, index, opts, val) ==
  LET r == getHighestRanking(item, opts, val)
  IN  IF r.rank >= matchRankMap.noMatch
        THEN Append(matches, [item |-> item, rank |-> r.rank,
                              index |-> index, keyIndex |-> r.keyIndex])
        ELSE matches

reduceItemsToRanked(matches, item, index, opts, val) ==
  LET r == getHighestRanking(item, opts, val)
  IN  IF r.rank > matchRankMap.noMatch
        THEN Append(matches, [item |-> item, rank |-> r.rank,
                              index |-> index, keyIndex |-> r.keyIndex])
        ELSE matches

\* items.reduce(reduceItemsToRanked, []) over the first n items
RECURSIVE ItemsReduce(_, _, _, _)
ItemsReduce(its, opts, val, n) ==
  IF n = 0 THEN <<>>
  ELSE reduceItemsToRanked(ItemsReduce(its, opts, val, n - 1),
                           its[n], n - 1, opts, val)

\* Array.prototype.sort(sortRankedItems): insertion by the comparator
RECURSIVE SortInsert(_, _)
SortInsert(sorted, x) ==
  IF sorted = <<>> THEN <<x>>
  ELSE IF sortRankedItems(x, Head(sorted)) < 0 THEN <<x>> \o sorted
  ELSE <<Head(sorted)>> \o SortInsert(Tail(sorted), x)

RECURSIVE ArraySort(_, _)
ArraySort(arr, n) ==
  IF n = 0 THEN <<>> ELSE SortInsert(ArraySort(arr, n - 1), arr[n])

\* the sorted array of ranked records built by matchSorter
RankedAndSorted(its, val, opts) ==
  LET m == ItemsReduce(its, opts, val, Len(its)) IN ArraySort(m, Len(m))

matchSorter(its, val, opts) ==
  LET sorted == RankedAndSorted(its, val, opts)
  IN  [k \in 1..Len(sorted) |-> sorted[k].item]

(***************************************************************************)
(* Inputs                                                                  *)
(***************************************************************************)
SeqsUpTo(S, n) == UNION {[1..k -> S] : k \in 0..n}

\* string items: for the query "ab" one text of every tier, and the empty text
ItemTexts ==
  { <<"A","b">>,            \* equals
    <<"a","b","d">>,        \* startsWith
    <<"d"," ","a","b">>,    \* wordStartsWith
    <<"d","a","b">>,        \* contains
    <<"a","-","b">>,        \* acronym
    <<"a","d","b">>,        \* matches
    <<"b","a">>,            \* noMatch
    <<>> }

Queries == { <<>>, <<"a","b">>, <<"d">> }

FieldValues == { Undefined, Str(<<"a","b">>), Str(<<"d","a","b">>) }

StringItems == {StringItem(t) : t \in ItemTexts}
ObjectItems == {ObjectItem(p) : p \in [KeyNames -> FieldValues]}

\* key lists: every sequence of distinct key names
KeyLists ==
  {ks \in SeqsUpTo(KeyNames, Cardinality(KeyNames)) :
     \A i, j \in 1..Len(ks) : i # j => ks[i] # ks[j]}

NoKeys == [hasKeys |-> FALSE, keys |-> <<>>]
WithKeys(ks) == [hasKeys |-> TRUE, keys |-> ks]

Alphabet == {"a", "B", " ", "-"}
Strings == SeqsUpTo(Alphabet, MaxLen)

(***************************************************************************)
(* Specification of matchSorter calls                                      *)
(***************************************************************************)
Init ==
  /\ value \in Queries
  /\ \/ /\ items \in SeqsUpTo(StringItems, MaxItems)
        /\ options \in {NoKeys, WithKeys(<<>>)}
     \/ /\ items \in SeqsUpTo(ObjectItems, MaxItems)
        /\ options \in {WithKeys(ks) : ks \in KeyLists}
  /\ matchedItems = <<>>
  /\ result = <<>>
  /\ result2 = <<>>
  /\ testString = <<>>
  /\ stringToRank = <<>>
  /\ ranking = matchRankMap.noMatch
  /\ pc = "start"

\* result = matchSorter(items, value, options)
MatchSorter ==
  /\ pc = "start"
  /\ matchedItems' = RankedAndSorted(items, value, options)
  /\ result' = matchSorter(items, value, options)
  /\ pc' = "done"
  /\ UNCHANGED <<items, value, options, result2, testString, stringToRank, ranking>>

\* result2 = matchSorter(result, value, options)
MatchSorterAgain ==
  /\ pc = "done"
  /\ matchedItems' = RankedAndSorted(result, value, options)
  /\ result2' = matchSorter(result, value, options)
  /\ pc' = "again"
  /\ UNCHANGED <<items, value, options, result, testString, stringToRank, ranking>>

Next == MatchSorter \/ MatchSorterAgain

Spec == Init /\ [][Next]_vars

(***************************************************************************)
(* Specification of the string-level functions                             *)
(***************************************************************************)
InitRank ==
  /\ testString \in Strings
  /\ stringToRank \in Strings
  /\ ranking = matchRankMap.noMatch
  /\ items = <<>>
  /\ value = <<>>
  /\ options = NoKeys
  /\ matchedItems = <<>>
  /\ result = <<>>
  /\ result2 = <<>>
  /\ pc = "start"

\* ranking = getMatchRanking(testString, stringToRank)
GetMatchRanking ==
  /\ pc = "start"
  /\ ranking' = getMatchRanking(Str(testString), stringToRank)
  /\ pc' = "ranked"
  /\ UNCHANGED <<items, value, options, matchedItems, result, result2,
                 testString, stringToRank>>

\* ranking = stringsByCharOrder(testString, stringToRank)
StringsByCharOrder ==
  /\ pc = "start"
  /\ ranking' = stringsByCharOrder(testString, stringToRank)
  /\ pc' = "ordered"
  /\ UNCHANGED <<items, value, options, matchedItems, result, result2,
                 testString, stringToRank>>

NextRank == GetMatchRanking \/ StringsByCharOrder

SpecRank == InitRank /\ [][NextRank]_vars

(***************************************************************************)
(* Notions the properties are stated with                                  *)
(***************************************************************************)
Count(seq, v) == Cardinality({i \in 1..Len(seq) : seq[i] = v})

SetMax(S) == CHOOSE x \in S : \A y \in S : y <= x

\* the tiers an item reaches: of the item itself when no keys are given,
\* of each keyed field otherwise
Tiers(item, opts, val) ==
  IF ~opts.hasKeys THEN {getMatchRanking(item, val)}
  ELSE {getMatchRanking(item.props[opts.keys[k]], val) : k \in 1..Len(opts.keys)}

BestTier(item, opts, val) ==
  SetMax(Tiers(item, opts, val) \cup {matchRankMap.noMatch})

\* the first key position (0-based) whose field reaches the item's best tier
FirstBestKey(item, opts, val) ==
  IF ~opts.hasKeys THEN -1
  ELSE CHOOSE k \in 0..(Len(opts.keys) - 1) :
         /\ getMatchRanking(item.props[opts.keys[k + 1]], val) = BestTier(item, opts, val)
         /\ \A r \in 0..(k - 1) :
              getMatchRanking(item.props[opts.keys[r + 1]], val) # BestTier(item, opts, val)

Matching(its, opts, val) ==
  {i \in 1..Len(its) : BestTier(its[i], opts, val) > matchRankMap.noMatch}

\* q is a subsequence of t: its characters sit in t at increasing positions
RECURSIVE IsSubsequence(_, _)
IsSubsequence(q, t) ==
  \/ q = <<>>
  \/ \E j \in 1..Len(t) :
       t[j] = q[1] /\ IsSubsequence(Tail(q), SubSeq(t, j + 1, Len(t)))

\* a comes before b in (tier descending, key index ascending, index ascending)
Before(a, b) ==
  \/ a.rank > b.rank
  \/ a.rank = b.rank /\ a.keyIndex < b.keyIndex
  \/ a.rank = b.rank /\ a.keyIndex = b.keyIndex /\ a.index < b.index

Positions == 1..Len(matchedItems)

(***************************************************************************)
(* Properties                                                              *)
(***************************************************************************)

\* C1: the output holds exactly the input items whose best tier is above
\* noMatch, each as many times as it occurs in the input, and nothing else.
C1_ExactlyTheMatches ==
  pc = "done" =>
    /\ Len(result) = Cardinality(Matching(items, options, value))
    /\ \A i \in 1..Len(items) :
         Count(result, items[i]) =
           IF BestTier(items[i], options, value) > matchRankMap.noMatch
             THEN Count(items, items[i]) ELSE 0

C1_Witness ==
  /\ pc = "done"
  /\ options.hasKeys /\ Len(options.keys) = 2
  /\ Len(result) = 2
  /\ Len(items) = 3
  /\ result[1] = result[2]

\* C2: in the output an item of a higher best tier precedes every item of a
\* lower best tier.
C2_TierDescending ==
  pc = "done" =>
    \A i, j \in 1..Len(result) :
      BestTier(result[i], options, value) > BestTier(result[j], options, value)
        => i < j

C2_Witness ==
  /\ pc = "done"
  /\ Len(result) = 3
  /\ BestTier(items[1], options, value) < BestTier(items[2], options, value)
  /\ BestTier(items[2], options, value) < BestTier(items[3], options, value)
  /\ BestTier(items[1], options, value) = matchRankMap.matches

\* C3: two output items of the same tier and the same key index stand in the
\* order of their input indices, and each is the input item at its index.
C3_Stable ==
  pc = "done" =>
    /\ \A i \in Positions : result[i] = items[matchedItems[i].index + 1]
    /\ \A i, j \in Positions :
         /\ matchedItems[i].rank = matchedItems[j].rank
         /\ matchedItems[i].keyIndex = matchedItems[j].keyIndex
         /\ matchedItems[i].index < matchedItems[j].index
         => i < j

C3_Witness ==
  /\ pc = "done"
  /\ Len(matchedItems) = 3
  /\ matchedItems[2].rank = matchedItems[3].rank
  /\ matchedItems[2].keyIndex = matchedItems[3].keyIndex
  /\ matchedItems[2].item # matchedItems[3].item
  /\ matchedItems[1].index = 2

\* C4: with keys, the key index of an output item is the first key that
\* reaches its best tier, and of two output items of the same tier the one
\* with the smaller key index comes first, whatever their input order.
C4_EarlierKeyFirst ==
  (pc = "done" /\ options.hasKeys) =>
    /\ \A i \in Positions :
         matchedItems[i].keyIndex =
           FirstBestKey(items[matchedItems[i].index + 1], options, value)
    /\ \A i, j \in Positions :
         /\ matchedItems[i].rank = matchedItems[j].rank
         /\ matchedItems[i].keyIndex < matchedItems[j].keyIndex
         => i < j

C4_Witness ==
  /\ pc = "done"
  /\ options.hasKeys
  /\ \E i, j \in Positions :
       /\ i < j
       /\ matchedItems[i].rank = matchedItems[j].rank
       /\ matchedItems[i].keyIndex < matchedItems[j].keyIndex
       /\ matchedItems[i].index > matchedItems[j].index

\* C5: a key that resolves to an undefined field classifies as empty text:
\* noMatch for a non-empty query, so an item whose keys all resolve to
\* undefined fields is not in the output of a non-empty query.
C5_AbsentFieldNoMatch ==
  (pc = "done" /\ options.hasKeys /\ value # <<>>) =>
    \A i \in 1..Len(items) :
      /\ \A k \in 1..Len(options.keys) :
           items[i].props[options.keys[k]].type = "undefined" =>
             getMatchRanking(items[i].props[options.keys[k]], value) =
               matchRankMap.noMatch
      /\ (\A k \in 1..Len(options.keys) :
            items[i].props[options.keys[k]].type = "undefined")
         => Count(result, items[i]) = 0

\* C6: with an empty key list getHighestRanking classifies the item itself,
\* with key index -1, and matchSorter returns what it returns without keys.
C6_EmptyKeysAsNoKeys ==
  (pc = "done" /\ options.hasKeys /\ options.keys = <<>>) =>
    /\ \A i \in 1..Len(items) :
         getHighestRanking(items[i], options, value) =
           [rank |-> getMatchRanking(items[i], value), keyIndex |-> -1]
    /\ result = matchSorter(items, value, NoKeys)

\* C7: for the empty query every non-empty text ranks contains or better, so
\* without keys every item of non-empty text is returned, and items tied on
\* tier and key index keep their input order.
C7_EmptyQuery ==
  (pc = "done" /\ value = <<>> /\ ~options.hasKeys) =>
    /\ \A i \in 1..Len(items) :
         TemplateString(items[i]) # <<>> =>
           /\ getMatchRanking(items[i], value) >= matchRankMap.contains
           /\ \E k \in Positions :
                matchedItems[k].index = i - 1 /\ result[k] = items[i]
    /\ \A i, j \in Positions :
         /\ matchedItems[i].rank = matchedItems[j].rank
         /\ matchedItems[i].keyIndex = matchedItems[j].keyIndex
         /\ i < j
         => matchedItems[i].index < matchedItems[j].index

C7_Witness ==
  /\ pc = "done" /\ value = <<>> /\ ~options.hasKeys
  /\ Len(items) = 3
  /\ TemplateString(items[1]) # <<>>
  /\ TemplateString(items[2]) = <<>>
  /\ TemplateString(items[3]) # <<>>
  /\ items[1] # items[3]

\* C8: matchSorter applied to its own output, with the same query and keys,
\* returns that output.
C8_Idempotent == pc = "again" => result2 = result

C8_Witness ==
  /\ pc = "again"
  /\ Len(result) = 3
  /\ result[1] # items[1]
  /\ BestTier(result[2], options, value) = BestTier(result[3], options, value)
  /\ result[2] # result[3]

\* C9: on the records of one call the comparator returns -1 or 1, never 0,
\* is antisymmetric and transitive, and orders by tier descending, then key
\* index ascending, then input index ascending.
C9_StrictTotalOrder ==
  /\ \A i, j \in Positions :
       i # j =>
         /\ matchedItems[i].index # matchedItems[j].index
         /\ sortRankedItems(matchedItems[i], matchedItems[j]) \in {-1, 1}
         /\ sortRankedItems(matchedItems[i], matchedItems[j]) =
              0 - sortRankedItems(matchedItems[j], matchedItems[i])
         /\ (sortRankedItems(matchedItems[i], matchedItems[j]) = -1) <=>
              Before(matchedItems[i], matchedItems[j])
  /\ \A i, j, k \in Positions :
       /\ sortRankedItems(matchedItems[i], matchedItems[j]) = -1
       /\ sortRankedItems(matchedItems[j], matchedItems[k]) = -1
       => sortRankedItems(matchedItems[i], matchedItems[k]) = -1

C9_Witness ==
  /\ pc = "done"
  /\ Len(matchedItems) = 3
  /\ matchedItems[1].rank > matchedItems[2].rank
  /\ matchedItems[2].rank = matchedItems[3].rank
  /\ matchedItems[2].keyIndex < matchedItems[3].keyIndex

\* C10: stringsByCharOrder returns matches exactly when the query is a
\* subsequence of the candidate, and noMatch otherwise.
C10_CharOrderIsSubsequence ==
  pc = "ordered" =>
    /\ ranking \in {matchRankMap.matches, matchRankMap.noMatch}
    /\ (ranking = matchRankMap.matches) <=> IsSubsequence(stringToRank, testString)

C10_Witness ==
  /\ pc = "ordered"
  /\ ranking = matchRankMap.matches
  /\ Len(stringToRank) = 2
  /\ stringToRank[1] = stringToRank[2]
  /\ indexOf(testString, stringToRank) = -1

====
